---- MODULE Spec2Model ----
(***************************************************************************)
(* The runtime context store of python_template/utils/context.py:          *)
(* Context (a ContextVar holding a copy-on-write dict), ContextManager     *)
(* (a registry name -> Context), the module-level lazily created manager   *)
(* and global Context, and the scope helpers context_scope /               *)
(* async_context_scope.                                                    *)
(*                                                                         *)
(* Branches are execution contexts in the sense of contextvars: the main   *)
(* branch, asyncio tasks (created with a copy of the spawner's context)    *)
(* and threads (created with an empty context).  Tasks are scheduled       *)
(* cooperatively: a method call of this module contains no await, so no    *)
(* other task runs in the middle of it.  Threads are preemptive: a thread  *)
(* switch can happen between any two accesses to shared objects, so every  *)
(* method that touches the registry or a module global is modelled one     *)
(* shared access per step.                                                 *)
(***************************************************************************)
EXTENDS Integers, Sequences, FiniteSets, TLC

\* ---------------------------------------------------------------- bounds
MaxBranches == 3      \* branches that ever exist (the main one included)
MaxCtx == 2           \* Context objects ever constructed
MaxDicts == 3         \* dict objects ever installed in a ContextVar

MaxScopeBranches == 2 \* branches that use the scope helpers of one manager

\* Longest list given to async_batch_process_concurrent.
MaxItems == 4

\* Largest max_retries a decorator is made with.
MaxRetries == 2

Branches == 1..MaxBranches
ScopeBranches == 1..MaxScopeBranches
CtxIds == 1..MaxCtx

\* Python's None: the ContextVar default, the default of get(), "no object".
None == 0
\* The ContextManager the application constructed itself (manager = ContextManager()).
UserManager == 1

Keys == {"k1", "k2"}
Values == {None, 1, 2}
Names == {"req", "global"}
ScopeFns == {"context_scope", "async_context_scope"}
Exits == {"normal", "return", "exception", "cancelled"}
\* dict literals passed to update() / as initial_data, in insertion order
Mappings == { <<>>, << <<"k1", 1>> >>, << <<"k2", 2>>, <<"k1", 2>> >> }
\* the same literals, numbered
MappingList == << <<>>, << <<"k1", 1>> >>, << <<"k2", 2>>, <<"k1", 2>> >> >>
MappingIdx(other) == CHOOSE i \in 1..Len(MappingList) : MappingList[i] = other
\* values passed as the default of get()
Defaults == {None, 2}
\* the snapshot methods
Snapshots == {"keys", "values", "items", "to_dict"}

VARIABLES
    kind,       \* kind[b]: "none" (not started), "task", "thread" or "run" (Context.run)
    cvar,       \* cvar[b][c]: value of Context c's ContextVar _data in b's execution context
    heap,       \* heap[d]: the dict object d, a sequence of <<key, value>> in insertion order
    ctxName,    \* ctxName[c]: Context.name of Context object c
    contexts,   \* contexts[m]: ContextManager._contexts of manager m, <<name, Context>> pairs
    gmgr,       \* module global _context_manager
    gctx,       \* module global _global_context
    call,       \* call[b]: the method call branch b is in the middle of
    scope,      \* scope[b]: the with-block of a scope helper that branch b is in
    last,       \* the step taken last: who, which operation, its arguments and outcome
    retry,      \* the wrapper made by retry_decorator / async_retry_decorator and its call
    batch       \* one call of async_batch_process_concurrent

vars == <<kind, cvar, heap, ctxName, contexts, gmgr, gctx, call, scope, last, retry, batch>>

\* ------------------------------------------------------- Python dict
DictHas(d, k) == \E i \in 1..Len(d) : d[i][1] = k

DictIdx(d, k) == CHOOSE i \in 1..Len(d) : d[i][1] = k

DictGet(d, k, default) == IF DictHas(d, k) THEN d[DictIdx(d, k)][2] ELSE default

\* A store that leaves an existing key alone (dict.setdefault)
DictSet_setdefault(d, k, v) == IF DictHas(d, k) THEN d ELSE Append(d, <<k, v>>)

DictSet(d, k, v) ==
    IF DictHas(d, k) THEN [d EXCEPT ![DictIdx(d, k)] = <<k, v>>]
    ELSE Append(d, <<k, v>>)

DictDel(d, k) ==
    LET at == DictIdx(d, k)
    IN  [i \in 1..(Len(d) - 1) |-> IF i < at THEN d[i] ELSE d[i + 1]]

RECURSIVE DictUpdate(_, _)
DictUpdate(d, other) ==
    IF other = <<>> THEN d
    ELSE DictUpdate(DictSet(d, other[1][1], other[1][2]), Tail(other))

DictKeys(d) == [i \in 1..Len(d) |-> d[i][1]]

\* ------------------------------------------------------------ frames
IdleCall == [pc |-> "idle", op |-> "", m |-> None, name |-> "", then |-> "",
             key |-> "", val |-> None]

NoScope == [st |-> "none", name |-> "", ctx |-> None, init |-> <<>>, how |-> ""]

\* A step of branch b: operation op on the name or key `name` (and Context c),
\* value passed or returned val (a Context for the registry calls, 1/0 for
\* True/False, -1 for nothing), exception raised exc ("" for none); arg is a
\* further argument (the default of get, the number of update's mapping).
StepArg(b, op, name, c, val, exc, arg) ==
    [b |-> b, op |-> op, name |-> name, c |-> c, val |-> val, exc |-> exc, arg |-> arg]

Step(b, op, name, c, val, exc) == StepArg(b, op, name, c, val, exc, None)

\* A scope helper that swallows whatever the block raises.
ExitExc_swallowed(how) == ""

\* The exception, if any, with which a block is left.
ExitExc(how) ==
    CASE how = "exception" -> "Exception"
      [] how = "cancelled" -> "CancelledError"
      [] OTHER -> ""

\* No function has been decorated yet; <<>> stands for Python's None where the
\* other values are tuples.
NoRetry ==
    [pc |-> "undecorated", async |-> FALSE, max_retries |-> 0, exceptions |-> {},
     delay |-> 0, backoff |-> 0, attempt |-> 0, current_delay |-> 0,
     last_exception |-> <<>>, outs |-> <<>>, slept |-> <<>>, result |-> <<>>]

\* async_batch_process_concurrent has not been called.
NoBatch ==
    [pc |-> "idle", max_concurrency |-> 0, chunks |-> <<>>, semaphore |-> 0,
     st |-> <<>>, calls |-> <<>>, result |-> None]

\* ------------------------------------------------------- scheduling
Idle(b) == kind[b] # "none" /\ call[b].pc = "idle"

\* A thread runs whenever it likes; a task runs only while no other task is in
\* the middle of a call (calls contain no await); a function started with
\* Context.run ("run") runs inside the call of the branch that started it.
CanRun(b) ==
    /\ kind[b] # "none"
    /\ \/ kind[b] \in {"thread", "run"}
       \/ \A o \in Branches \ {b} : kind[o] = "task" => call[o].pc = "idle"

Init ==
    /\ kind = [b \in Branches |-> IF b = 1 THEN "task" ELSE "none"]
    /\ cvar = [b \in Branches |-> [c \in CtxIds |-> None]]
    /\ heap = <<>>
    /\ ctxName = <<>>
    /\ contexts = << <<>> >>
    /\ gmgr = None
    /\ gctx = None
    /\ call = [b \in Branches |-> IdleCall]
    /\ scope = [b \in Branches |-> NoScope]
    /\ last = Step(None, "", "", None, -1, "")
    /\ retry = NoRetry
    /\ batch = NoBatch

\* ------------------------------------------------------------ Context
\* Context._get_data: the dict the branch's ContextVar holds, {} when it holds None.
get_data(b, c) == IF cvar[b][c] = None THEN <<>> ELSE heap[cvar[b][c]]

\* self._data.set(d) with a dict object d that is new
InstallNew(b, c, d) ==
    /\ Len(heap) < MaxDicts
    /\ heap' = Append(heap, d)
    /\ cvar' = [cvar EXCEPT ![b][c] = Len(heap) + 1]

\* Context.set without the copy: data = self._get_data(); data[key] = value
Context_set_in_place(b, c, k, v) ==
    IF cvar[b][c] = None
    THEN InstallNew(b, c, DictSet(<<>>, k, v))
    ELSE /\ heap' = [heap EXCEPT ![cvar[b][c]] = DictSet(@, k, v)]
         /\ UNCHANGED cvar

\* Context.set
Context_set(b, c, k, v) == InstallNew(b, c, DictSet(get_data(b, c), k, v))

\* A get that answers a stored None with the default: data.get(key) or default
Context_get_or_default(b, c, k, default) ==
    IF DictGet(get_data(b, c), k, None) = None
    THEN default ELSE DictGet(get_data(b, c), k, None)

\* Context.get
Context_get(b, c, k, default) == DictGet(get_data(b, c), k, default)

\* Context.has
Context_has(b, c, k) == DictHas(get_data(b, c), k)

\* Context.keys
Context_keys(b, c) == DictKeys(get_data(b, c))

\* Context.__len__
Context_len(b, c) == Len(get_data(b, c))

\* The state change of every reading method (get, has, keys, values, items,
\* to_dict, __len__, __getitem__): _get_data installs a fresh {} when the
\* ContextVar holds None.
Context_read(b, c) ==
    IF cvar[b][c] = None THEN InstallNew(b, c, <<>>) ELSE UNCHANGED <<cvar, heap>>

\* Context.delete without the copy: del self._get_data()[key]
Context_delete_in_place(b, c, k) ==
    IF DictHas(get_data(b, c), k)
    THEN /\ heap' = [heap EXCEPT ![cvar[b][c]] = DictDel(@, k)]
         /\ UNCHANGED cvar
    ELSE Context_read(b, c)

\* A delete that removes nothing
Context_delete_keeps(b, c, k) == Context_read(b, c)

\* Context.delete
Context_delete(b, c, k) ==
    IF DictHas(get_data(b, c), k)
    THEN InstallNew(b, c, DictDel(get_data(b, c), k))
    ELSE Context_read(b, c)

\* Context.delete, the value returned: True (1) if the key was there, else False (0)
Context_delete_result(b, c, k) == IF DictHas(get_data(b, c), k) THEN 1 ELSE 0

\* Context.clear emptying the current dict: self._get_data().clear()
Context_clear_in_place(b, c) ==
    IF cvar[b][c] = None
    THEN InstallNew(b, c, <<>>)
    ELSE /\ heap' = [heap EXCEPT ![cvar[b][c]] = <<>>]
         /\ UNCHANGED cvar

\* A clear that only initialises an unset variable
Context_clear_lazy(b, c) == Context_read(b, c)

\* Context.clear
Context_clear(b, c) == InstallNew(b, c, <<>>)

\* An update that stores nothing
Context_update_skipped(b, c, other) == Context_read(b, c)

\* An update that replaces the view by the mapping
Context_update_replace(b, c, other) == InstallNew(b, c, DictUpdate(<<>>, other))

\* Context.update
Context_update(b, c, other) == InstallNew(b, c, DictUpdate(get_data(b, c), other))

\* ------------------------------------------------- completing a call
Frame(pc, op, m, n, then) ==
    [pc |-> pc, op |-> op, m |-> m, name |-> n, then |-> then, key |-> "", val |-> None]

\* The call goes on: the next shared access is a later step.
Continue(b, fr) ==
    /\ call' = [call EXCEPT ![b] = fr]
    /\ UNCHANGED <<retry, batch>>
    /\ last' = Step(b, fr.pc, fr.name, None, -1, "")
    /\ UNCHANGED <<cvar, heap>>

\* What a finished call leaves behind: the result for a plain call; for the
\* get_context of a scope helper the rest of the helper up to its yield
\* (if initial_data: ctx.update(initial_data)); for the delete_context of a
\* scope helper's finally clause the end of the with-statement.
Complete(b, fr, val, exc) ==
    /\ call' = [call EXCEPT ![b] = IdleCall]
    /\ CASE fr.then = "scope_enter" ->
              IF exc # ""
              THEN /\ scope' = [scope EXCEPT ![b] = NoScope]
                   /\ UNCHANGED <<retry, batch>>
                   /\ last' = Step(b, fr.op, fr.name, None, -1, exc)
                   /\ UNCHANGED <<cvar, heap>>
              ELSE /\ scope' = [scope EXCEPT ![b] =
                                   [@ EXCEPT !.st = "inblock", !.ctx = val, !.init = <<>>]]
                   /\ UNCHANGED <<retry, batch>>
                   /\ last' = Step(b, fr.op, fr.name, val, val, "")
                   /\ IF scope[b].init # <<>>
                      THEN Context_update(b, val, scope[b].init)
                      ELSE UNCHANGED <<cvar, heap>>
         [] fr.then = "scope_exit" ->
              /\ scope' = [scope EXCEPT ![b] = NoScope]
              /\ UNCHANGED <<retry, batch>>
              /\ last' = Step(b, "scope_exit", fr.name, scope[b].ctx, val,
                              IF exc # "" THEN exc ELSE ExitExc(scope[b].how))
              /\ UNCHANGED <<cvar, heap>>
         [] OTHER ->
              /\ UNCHANGED <<retry, batch>>
              /\ last' = Step(b, fr.op, fr.name, None, val, exc)
              /\ UNCHANGED <<scope, cvar, heap>>

\* ----------------------------------------------------- ContextManager
\* Context(name=name): a new Context object; its ContextVar is unset everywhere.
NewContext(n) ==
    /\ Len(ctxName) < MaxCtx
    /\ ctxName' = Append(ctxName, n)

\* create_context without the check of line 264
create_context_unchecked(b, n) ==
    /\ Idle(b) /\ CanRun(b)
    /\ Len(ctxName) < MaxCtx
    /\ Continue(b, Frame("create_store", "create_context", UserManager, n, "ret"))
    /\ UNCHANGED <<kind, ctxName, contexts, gmgr, gctx, scope>>

\* ContextManager.create_context, line 264: if name in self._contexts: raise
create_context(b, n) ==
    /\ Idle(b) /\ CanRun(b)
    /\ IF DictHas(contexts[UserManager], n)
       THEN Complete(b, Frame("", "create_context", UserManager, n, "ret"), -1, "ValueError")
       ELSE /\ Len(ctxName) < MaxCtx
            /\ Continue(b, Frame("create_store", "create_context", UserManager, n, "ret"))
            /\ UNCHANGED scope
    /\ UNCHANGED <<kind, ctxName, contexts, gmgr, gctx>>

\* ContextManager.create_context, lines 266-268: construct, register, return
create_store(b) ==
    /\ call[b].pc = "create_store" /\ CanRun(b)
    /\ NewContext(call[b].name)
    /\ contexts' = [contexts EXCEPT ![call[b].m] = DictSet(@, call[b].name, Len(ctxName) + 1)]
    /\ Complete(b, call[b], Len(ctxName) + 1, "")
    /\ UNCHANGED <<kind, gmgr, gctx>>

\* ContextManager.get_context
ContextManager_get_context(b, n) ==
    /\ Idle(b) /\ CanRun(b)
    /\ Complete(b, Frame("", "get_context", UserManager, n, "ret"),
                DictGet(contexts[UserManager], n, None), "")
    /\ UNCHANGED <<kind, ctxName, contexts, gmgr, gctx>>

\* get_or_create_context that constructs a Context on every call
goc_check_always_new(b, op, m, n, then) == Continue(b, Frame("goc_store", op, m, n, then))

\* ContextManager.get_or_create_context, line 294: if name not in self._contexts
goc_check(b, op, m, n, then) ==
    Continue(b, Frame(IF DictHas(contexts[m], n) THEN "goc_load" ELSE "goc_store",
                      op, m, n, then))

get_or_create_context(b, n) ==
    /\ Idle(b) /\ CanRun(b)
    /\ goc_check(b, "get_or_create_context", UserManager, n, "ret")
    /\ UNCHANGED <<kind, ctxName, contexts, gmgr, gctx, scope>>

\* get_or_create_context that registers again an earlier Context of the name
goc_store_reuse(b) ==
    /\ call[b].pc = "goc_store" /\ CanRun(b)
    /\ IF \E c \in 1..Len(ctxName) : ctxName[c] = call[b].name
       THEN /\ UNCHANGED ctxName
            /\ contexts' = [contexts EXCEPT ![call[b].m] =
                               DictSet(@, call[b].name,
                                       CHOOSE c \in 1..Len(ctxName) : ctxName[c] = call[b].name)]
       ELSE /\ NewContext(call[b].name)
            /\ contexts' = [contexts EXCEPT ![call[b].m] =
                               DictSet(@, call[b].name, Len(ctxName) + 1)]
    /\ Continue(b, [call[b] EXCEPT !.pc = "goc_load"])
    /\ UNCHANGED <<kind, gmgr, gctx, scope>>

\* ContextManager.get_or_create_context, line 295: self._contexts[name] = Context(name=name)
goc_store(b) ==
    /\ call[b].pc = "goc_store" /\ CanRun(b)
    /\ NewContext(call[b].name)
    /\ contexts' = [contexts EXCEPT ![call[b].m] = DictSet(@, call[b].name, Len(ctxName) + 1)]
    /\ Continue(b, [call[b] EXCEPT !.pc = "goc_load"])
    /\ UNCHANGED <<kind, gmgr, gctx, scope>>

\* ContextManager.get_or_create_context, line 296: return self._contexts[name]
goc_load(b) ==
    /\ call[b].pc = "goc_load" /\ CanRun(b)
    /\ IF DictHas(contexts[call[b].m], call[b].name)
       THEN Complete(b, call[b], DictGet(contexts[call[b].m], call[b].name, None), "")
       ELSE Complete(b, call[b], -1, "KeyError")
    /\ UNCHANGED <<kind, ctxName, contexts, gmgr, gctx>>

\* delete_context without the membership test of line 309
delete_context_unchecked(b, n) ==
    /\ Idle(b) /\ CanRun(b)
    /\ Continue(b, Frame("del_del", "delete_context", UserManager, n, "ret"))
    /\ UNCHANGED <<kind, ctxName, contexts, gmgr, gctx, scope>>

\* ContextManager.delete_context, line 309: if name in self._contexts
delete_context(b, n) ==
    /\ Idle(b) /\ CanRun(b)
    /\ IF DictHas(contexts[UserManager], n)
       THEN /\ Continue(b, Frame("del_del", "delete_context", UserManager, n, "ret"))
            /\ UNCHANGED scope
       ELSE Complete(b, Frame("", "delete_context", UserManager, n, "ret"), 0, "")
    /\ UNCHANGED <<kind, ctxName, contexts, gmgr, gctx>>

\* delete_context that reports the removal without removing
del_del_keeps(b) ==
    /\ call[b].pc = "del_del" /\ CanRun(b)
    /\ Complete(b, call[b], 1, "")
    /\ UNCHANGED <<kind, ctxName, contexts, gmgr, gctx>>

\* ContextManager.delete_context, lines 310-311: del self._contexts[name]; return True
del_del(b) ==
    /\ call[b].pc = "del_del" /\ CanRun(b)
    /\ IF DictHas(contexts[call[b].m], call[b].name)
       THEN /\ contexts' = [contexts EXCEPT ![call[b].m] = DictDel(@, call[b].name)]
            /\ Complete(b, call[b], 1, "")
       ELSE /\ UNCHANGED contexts
            /\ Complete(b, call[b], 0, "KeyError")
    /\ UNCHANGED <<kind, ctxName, gmgr, gctx>>

\* ContextManager.clear_all
clear_all(b) ==
    /\ Idle(b) /\ CanRun(b)
    /\ contexts' = [contexts EXCEPT ![UserManager] = <<>>]
    /\ Complete(b, Frame("", "clear_all", UserManager, "", "ret"), -1, "")
    /\ UNCHANGED <<kind, ctxName, gmgr, gctx>>

\* list_contexts that lists the newest registration first
ContextManager_list_contexts_reversed(m) ==
    [i \in 1..Len(contexts[m]) |-> contexts[m][Len(contexts[m]) + 1 - i][1]]

\* ContextManager.list_contexts: list(self._contexts.keys())
ContextManager_list_contexts(m) == DictKeys(contexts[m])

list_contexts(b) ==
    /\ Idle(b) /\ CanRun(b)
    /\ Complete(b, Frame("", "list_contexts", UserManager, "", "ret"),
                Len(ContextManager_list_contexts(UserManager)), "")
    /\ UNCHANGED <<kind, ctxName, contexts, gmgr, gctx>>

\* ------------------------------------------------ module-level manager
\* get_context, lines 353-355, from its first shared access on:
\*   if _context_manager is None / return _context_manager.get_or_create_context(name)
mg_check(b, op, n, then) ==
    IF gmgr = None
    THEN Continue(b, Frame("mg_assign", op, None, n, then))
    ELSE goc_check(b, op, gmgr, n, then)

\* get_context (module level)
get_context(b, n) ==
    /\ Idle(b) /\ CanRun(b)
    /\ mg_check(b, "get_context", n, "ret")
    /\ UNCHANGED <<kind, ctxName, contexts, gmgr, gctx, scope>>

\* get_context, line 354: _context_manager = ContextManager()
mg_assign(b) ==
    /\ call[b].pc = "mg_assign" /\ CanRun(b)
    /\ contexts' = Append(contexts, <<>>)
    /\ gmgr' = Len(contexts) + 1
    /\ Continue(b, [call[b] EXCEPT !.pc = "mg_load"])
    /\ UNCHANGED <<kind, ctxName, gctx, scope>>

\* get_context, line 355: return _context_manager.get_or_create_context(name)
mg_load(b) ==
    /\ call[b].pc = "mg_load" /\ CanRun(b)
    /\ goc_check(b, call[b].op, gmgr, call[b].name, call[b].then)
    /\ UNCHANGED <<kind, ctxName, contexts, gmgr, gctx, scope>>

\* -------------------------------------------------------- scope helpers
\* context_scope / async_context_scope up to ctx = get_context(name)
scope_enter(b, fn, n, init) ==
    /\ Idle(b) /\ CanRun(b)
    /\ scope[b].st = "none"
    /\ mg_check(b, fn, n, "scope_enter")
    /\ scope' = [scope EXCEPT ![b] = [st |-> "entering", name |-> n, ctx |-> None,
                                      init |-> init, how |-> ""]]
    /\ UNCHANGED <<kind, ctxName, contexts, gmgr, gctx>>

\* A scope helper without try/finally: the cleanup after the yield runs only
\* when the block ends without an exception.
scope_exit_no_finally(b, how) ==
    /\ Idle(b) /\ CanRun(b)
    /\ scope[b].st = "inblock"
    /\ IF ExitExc(how) = "" /\ gmgr # None /\ DictHas(contexts[gmgr], scope[b].name)
       THEN /\ Continue(b, Frame("del_del", "scope_exit", gmgr, scope[b].name, "scope_exit"))
            /\ scope' = [scope EXCEPT ![b] = [@ EXCEPT !.st = "exiting", !.how = how]]
       ELSE /\ call' = call
            /\ scope' = [scope EXCEPT ![b] = NoScope]
            /\ UNCHANGED <<retry, batch>>
            /\ last' = Step(b, "scope_exit", scope[b].name, scope[b].ctx, 0, ExitExc(how))
            /\ UNCHANGED <<cvar, heap>>
    /\ UNCHANGED <<kind, ctxName, contexts, gmgr, gctx>>

\* A scope helper that removes the registration only while it is that of the
\* Context it yielded.
scope_exit_own_only(b, how) ==
    /\ Idle(b) /\ CanRun(b)
    /\ scope[b].st = "inblock"
    /\ IF /\ gmgr # None /\ DictHas(contexts[gmgr], scope[b].name)
          /\ DictGet(contexts[gmgr], scope[b].name, None) = scope[b].ctx
       THEN /\ Continue(b, Frame("del_del", "scope_exit", gmgr, scope[b].name, "scope_exit"))
            /\ scope' = [scope EXCEPT ![b] = [@ EXCEPT !.st = "exiting", !.how = how]]
       ELSE /\ call' = call
            /\ scope' = [scope EXCEPT ![b] = NoScope]
            /\ UNCHANGED <<retry, batch>>
            /\ last' = Step(b, "scope_exit", scope[b].name, scope[b].ctx, 0, ExitExc(how))
            /\ UNCHANGED <<cvar, heap>>
    /\ UNCHANGED <<kind, ctxName, contexts, gmgr, gctx>>

\* context_scope / async_context_scope: the block is left (normally, by return, by
\* an exception or by cancellation) and the finally clause starts:
\*   if _context_manager: _context_manager.delete_context(name)
\* The two reads of _context_manager and the check of delete_context (line 309)
\* are one step; the removal (line 310) is the next.
scope_exit(b, how) ==
    /\ Idle(b) /\ CanRun(b)
    /\ scope[b].st = "inblock"
    /\ IF gmgr # None /\ DictHas(contexts[gmgr], scope[b].name)
       THEN /\ Continue(b, Frame("del_del", "scope_exit", gmgr, scope[b].name, "scope_exit"))
            /\ scope' = [scope EXCEPT ![b] = [@ EXCEPT !.st = "exiting", !.how = how]]
       ELSE /\ call' = call
            /\ scope' = [scope EXCEPT ![b] = NoScope]
            /\ UNCHANGED <<retry, batch>>
            /\ last' = Step(b, "scope_exit", scope[b].name, scope[b].ctx, 0, ExitExc(how))
            /\ UNCHANGED <<cvar, heap>>
    /\ UNCHANGED <<kind, ctxName, contexts, gmgr, gctx>>

\* ------------------------------------------------------ global Context
\* The Context method that set_global / get_global / clear_global call on Context c.
global_op(b, fr, c) ==
    /\ call' = [call EXCEPT ![b] = IdleCall]
    /\ UNCHANGED scope
    /\ CASE fr.op = "set_global" ->
              /\ Context_set(b, c, fr.key, fr.val)
              /\ UNCHANGED <<retry, batch>>
              /\ last' = Step(b, fr.op, fr.key, c, fr.val, "")
         [] fr.op = "clear_global" ->
              /\ Context_clear(b, c)
              /\ UNCHANGED <<retry, batch>>
              /\ last' = Step(b, fr.op, "", c, -1, "")
         [] OTHER ->
              /\ Context_read(b, c)
              /\ UNCHANGED <<retry, batch>>
              /\ last' = Step(b, fr.op, fr.key, c, Context_get(b, c, fr.key, None), "")

\* get_global_context, line 367: if _global_context is None
gg_check(b, op, k, v) ==
    LET fr == [Frame("gg_assign", op, None, "", "ret") EXCEPT !.key = k, !.val = v]
    IN  /\ Idle(b) /\ CanRun(b)
        /\ IF gctx = None
           THEN /\ Continue(b, fr)
                /\ UNCHANGED scope
           ELSE global_op(b, fr, gctx)
        /\ UNCHANGED <<kind, ctxName, contexts, gmgr, gctx>>

\* set_global
set_global(b, k, v) == gg_check(b, "set_global", k, v)

\* get_global
get_global(b, k) == gg_check(b, "get_global", k, None)

\* clear_global
clear_global(b) == gg_check(b, "clear_global", "", None)

\* A get_global_context that also registers the global Context under "global".
gg_assign_registered(b) ==
    /\ call[b].pc = "gg_assign" /\ CanRun(b)
    /\ NewContext("global")
    /\ gctx' = Len(ctxName) + 1
    /\ contexts' = [contexts EXCEPT ![UserManager] = DictSet(@, "global", Len(ctxName) + 1)]
    /\ Continue(b, [call[b] EXCEPT !.pc = "gg_load"])
    /\ UNCHANGED <<kind, gmgr, scope>>

\* get_global_context, line 368: _global_context = Context(name="global")
gg_assign(b) ==
    /\ call[b].pc = "gg_assign" /\ CanRun(b)
    /\ NewContext("global")
    /\ gctx' = Len(ctxName) + 1
    /\ Continue(b, [call[b] EXCEPT !.pc = "gg_load"])
    /\ UNCHANGED <<kind, contexts, gmgr, scope>>

\* get_global_context, line 369: return _global_context, and the Context method
gg_load(b) ==
    /\ call[b].pc = "gg_load" /\ CanRun(b)
    /\ global_op(b, call[b], gctx)
    /\ UNCHANGED <<kind, ctxName, contexts, gmgr, gctx>>

\* --------------------------------------------------- Context methods
\* A Context method called by branch b on a Context object it holds.
Called(b, c) ==
    /\ Idle(b) /\ CanRun(b) /\ c \in 1..Len(ctxName)
    /\ UNCHANGED <<kind, ctxName, contexts, gmgr, gctx, call, scope>>

Ctx_set(b, c, k, v) ==
    /\ Called(b, c)
    /\ Context_set(b, c, k, v)
    /\ UNCHANGED <<retry, batch>>
    /\ last' = Step(b, "set", k, c, v, "")

Ctx_read(b, c) ==
    /\ Called(b, c)
    /\ Context_read(b, c)
    /\ UNCHANGED <<retry, batch>>
    /\ last' = Step(b, "read", "", c, -1, "")

Ctx_delete(b, c, k) ==
    /\ Called(b, c)
    /\ Context_delete(b, c, k)
    /\ UNCHANGED <<retry, batch>>
    /\ last' = Step(b, "delete", k, c, Context_delete_result(b, c, k), "")

Ctx_clear(b, c) ==
    /\ Called(b, c)
    /\ Context_clear(b, c)
    /\ UNCHANGED <<retry, batch>>
    /\ last' = Step(b, "clear", "", c, -1, "")

Ctx_update(b, c, other) ==
    /\ Called(b, c)
    /\ Context_update(b, c, other)
    /\ UNCHANGED <<retry, batch>>
    /\ last' = StepArg(b, "update", "", c, -1, "", MappingIdx(other))

\* Context.get(key, default)
Ctx_get(b, c, k, default) ==
    /\ Called(b, c)
    /\ Context_read(b, c)
    /\ UNCHANGED <<retry, batch>>
    /\ last' = StepArg(b, "get", k, c, Context_get(b, c, k, default), "", default)

\* A bracket read that takes every None for a missing key
Context_getitem_exc_none(b, c, k) ==
    IF Context_get(b, c, k, None) = None THEN "KeyError" ELSE ""

\* Context.__getitem__:
\*   value = self.get(key)
\*   if value is None and key not in self._get_data(): raise KeyError(key)
Context_getitem_exc(b, c, k) ==
    IF Context_get(b, c, k, None) = None /\ ~Context_has(b, c, k) THEN "KeyError" ELSE ""

Ctx_getitem(b, c, k) ==
    /\ Called(b, c)
    /\ Context_read(b, c)
    /\ UNCHANGED <<retry, batch>>
    /\ last' = Step(b, "getitem", k, c,
                    IF Context_getitem_exc(b, c, k) = "" THEN Context_get(b, c, k, None) ELSE -1,
                    Context_getitem_exc(b, c, k))

\* Context.__setitem__: self.set(key, value)
Ctx_setitem(b, c, k, v) ==
    /\ Called(b, c)
    /\ Context_set(b, c, k, v)
    /\ UNCHANGED <<retry, batch>>
    /\ last' = Step(b, "setitem", k, c, v, "")

\* Context.__delitem__: if not self.delete(key): raise KeyError(key)
Context_delitem_exc(b, c, k) ==
    IF Context_delete_result(b, c, k) = 0 THEN "KeyError" ELSE ""

Ctx_delitem(b, c, k) ==
    /\ Called(b, c)
    /\ Context_delete(b, c, k)
    /\ UNCHANGED <<retry, batch>>
    /\ last' = Step(b, "delitem", k, c, -1, Context_delitem_exc(b, c, k))

\* What keys / values / items / to_dict put in the collection they return.
Context_snapshot(b, c, m) ==
    CASE m = "keys" -> DictKeys(get_data(b, c))
      [] m = "values" -> [i \in 1..Len(get_data(b, c)) |-> get_data(b, c)[i][2]]
      [] OTHER -> get_data(b, c)

\* A snapshot method that hands out the dict the ContextVar holds.
Ctx_snapshot_no_copy(b, c, m) ==
    /\ Called(b, c)
    /\ Context_read(b, c)
    /\ UNCHANGED <<retry, batch>>
    /\ last' = Step(b, m, "", c, cvar'[b][c], "")

\* Context.keys / values / items / to_dict: list(self._get_data().keys()), ...,
\* self._get_data().copy().  The collection returned is a new object; val is
\* the reference the caller receives.
Ctx_snapshot(b, c, m) ==
    /\ Called(b, c)
    /\ IF cvar[b][c] = None
       THEN /\ Len(heap) + 2 <= MaxDicts
            /\ heap' = heap \o << <<>>, <<>> >>
            /\ cvar' = [cvar EXCEPT ![b][c] = Len(heap) + 1]
       ELSE /\ Len(heap) < MaxDicts
            /\ heap' = Append(heap, Context_snapshot(b, c, m))
            /\ UNCHANGED cvar
    /\ UNCHANGED <<retry, batch>>
    /\ last' = Step(b, m, "", c, Len(heap'), "")

\* The caller changes the collection it has just been returned: appends to the
\* list, or stores a key in the dict.
Mutate_returned(b, k, v) ==
    /\ Idle(b) /\ CanRun(b)
    /\ last.b = b /\ last.op \in Snapshots
    /\ heap' = [heap EXCEPT ![last.val] =
                   CASE last.op = "keys" -> Append(@, k)
                     [] last.op = "values" -> Append(@, v)
                     [] last.op = "items" -> Append(@, <<k, v>>)
                     [] OTHER -> DictSet(@, k, v)]
    /\ UNCHANGED <<retry, batch>>
    /\ last' = Step(b, "mutate", last.op, last.c, last.val, "")
    /\ UNCHANGED <<kind, cvar, ctxName, contexts, gmgr, gctx, call, scope>>

\* ------------------------------------------------------------ branches
\* The next branch to start.
Fresh(ch) == kind[ch] = "none" /\ \A o \in Branches : o < ch => kind[o] # "none"

\* A child that starts with an empty execution context.
copy_context_empty(p) == [c \in CtxIds |-> None]

\* copy_context(): the child's execution context is a copy of the spawner's, so
\* every ContextVar of the child holds the very dict object the spawner's holds.
copy_context(p) == cvar[p]

\* asyncio.create_task in branch p, or copy_context().run
spawn_task(p, ch) ==
    /\ Idle(p) /\ CanRun(p) /\ Fresh(ch)
    /\ kind' = [kind EXCEPT ![ch] = "task"]
    /\ cvar' = [cvar EXCEPT ![ch] = copy_context(p)]
    /\ UNCHANGED <<retry, batch>>
    /\ last' = Step(p, "spawn", "", None, ch, "")
    /\ UNCHANGED <<heap, ctxName, contexts, gmgr, gctx, call, scope>>

\* threading.Thread(...).start() in branch p: the thread starts with an empty context
start_thread(p, ch) ==
    /\ Idle(p) /\ CanRun(p) /\ Fresh(ch)
    /\ kind' = [kind EXCEPT ![ch] = "thread"]
    /\ UNCHANGED <<retry, batch>>
    /\ last' = Step(p, "start", "", None, ch, "")
    /\ UNCHANGED <<cvar, heap, ctxName, contexts, gmgr, gctx, call, scope>>

\* run_in_context(ctx, func) in branch p, first half: context = copy_context()
\* and context.run(func) starts func, as ch, in that copy.  ctx is not used;
\* the frame keeps it (in m) and the number of the run (in val).
run_in_context(p, ctx, ch) ==
    /\ Idle(p) /\ CanRun(p) /\ Fresh(ch)
    /\ ctx \in 1..Len(ctxName)
    /\ kind' = [kind EXCEPT ![ch] = "run"]
    /\ cvar' = [cvar EXCEPT ![ch] = copy_context(p)]
    /\ call' = [call EXCEPT ![p] = [IdleCall EXCEPT !.pc = "run_in_context",
                                                     !.op = "run_in_context",
                                                     !.m = ctx, !.val = ch]]
    /\ UNCHANGED <<retry, batch>>
    /\ last' = Step(p, "run", "", ctx, ch, "")
    /\ UNCHANGED <<heap, ctxName, contexts, gmgr, gctx, scope>>

\* func, running as ch, returns the value v.
func_return(ch, v) ==
    /\ kind[ch] = "run" /\ Idle(ch)
    /\ call' = [call EXCEPT ![ch] = [IdleCall EXCEPT !.pc = "returned", !.val = v]]
    /\ UNCHANGED <<retry, batch>>
    /\ last' = Step(ch, "func_return", "", None, v, "")
    /\ UNCHANGED <<kind, cvar, heap, ctxName, contexts, gmgr, gctx, scope>>

\* run_in_context that hands the function's execution context back to the caller.
run_return_adopt(p) ==
    /\ kind[p] # "none" /\ call[p].pc = "run_in_context"
    /\ call[call[p].val].pc = "returned"
    /\ call' = [call EXCEPT ![p] = IdleCall]
    /\ cvar' = [cvar EXCEPT ![p] = cvar[call[p].val]]
    /\ UNCHANGED <<retry, batch>>
    /\ last' = StepArg(p, "run_in_context", "", call[p].m, call[call[p].val].val, "",
                       call[p].val)
    /\ UNCHANGED <<kind, heap, ctxName, contexts, gmgr, gctx, scope>>

\* run_in_context, second half: context.run returns what func returned and
\* the copy is dropped.
run_return(p) ==
    /\ kind[p] # "none" /\ call[p].pc = "run_in_context"
    /\ call[call[p].val].pc = "returned"
    /\ call' = [call EXCEPT ![p] = IdleCall]
    /\ UNCHANGED <<retry, batch>>
    /\ last' = StepArg(p, "run_in_context", "", call[p].m, call[call[p].val].val, "",
                       call[p].val)
    /\ UNCHANGED <<kind, cvar, heap, ctxName, contexts, gmgr, gctx, scope>>

\* ------------------------------------------------------ retry decorators
ctxVars == <<kind, cvar, heap, ctxName, contexts, gmgr, gctx, call, scope, last>>

\* Exception classes the decorated function raises, each with its base classes.
ExcTypes == {"ValueError", "UnicodeError", "TypeError"}

Mro(t) == IF t = "UnicodeError" THEN {"UnicodeError", "ValueError"} ELSE {t}

\* The `exceptions` tuples of the decorators under study.
ExceptionTuples == {{"ValueError"}, {"ValueError", "TypeError"}}

\* What one call of the decorated function does.
Outcomes == {<<"ok", "">>} \cup {<<"raise", t>> : t \in ExcTypes}

\* A wrapper that retries whatever is raised.
Caught_any(t, exceptions) == TRUE

\* `except exceptions as e`: an instance of a listed class or of a subclass.
Caught(t, exceptions) == Mro(t) \cap exceptions # {}

\* A wrapper that remembers the first failure only.
Remember_first(prev, e) == IF prev = <<>> THEN e ELSE prev

\* `last_exception = e`
Remember(prev, e) == e

\* retry_decorator(...)(func) and async_retry_decorator(...)(func).
retry_decorator(isAsync, max_retries, delay, backoff, exceptions) ==
    /\ retry.pc = "undecorated"
    /\ retry' = [retry EXCEPT !.pc = "idle", !.async = isAsync,
                              !.max_retries = max_retries, !.exceptions = exceptions,
                              !.delay = delay, !.backoff = backoff]
    /\ UNCHANGED <<ctxVars, batch>>

\* The wrapper is called: the locals are set and the loop is entered; with
\* nothing to iterate over, the statements after the loop raise.
wrapper ==
    /\ retry.pc = "idle"
    /\ retry' = IF retry.max_retries + 1 > 0
                THEN [retry EXCEPT !.pc = "call", !.attempt = 0,
                                   !.current_delay = retry.delay,
                                   !.last_exception = <<>>, !.outs = <<>>,
                                   !.slept = <<>>, !.result = <<>>]
                ELSE [retry EXCEPT !.pc = "done", !.attempt = 0,
                                   !.current_delay = retry.delay,
                                   !.last_exception = <<>>, !.outs = <<>>,
                                   !.slept = <<>>,
                                   !.result = <<"raised", <<"RuntimeError", 0>> >>]
    /\ UNCHANGED <<ctxVars, batch>>

\* One pass of the loop body: func is called (the Len(outs)+1-th time) and
\* returns, or raises the exception <<class, number of the call>>.
wrapper_call(out) ==
    /\ retry.pc = "call"
    /\ LET i == Len(retry.outs) + 1
           e == <<out[2], i>>
           r == [retry EXCEPT !.outs = Append(retry.outs, out)]
       IN  retry' =
             IF out[1] = "ok"
             THEN [r EXCEPT !.pc = "done", !.result = <<"returned", i>>]
             ELSE IF ~Caught(out[2], retry.exceptions)
             THEN [r EXCEPT !.pc = "done", !.result = <<"raised", e>>]
             ELSE IF retry.attempt < retry.max_retries
             THEN [r EXCEPT !.pc = "sleep",
                            !.last_exception = Remember(retry.last_exception, e)]
             ELSE [r EXCEPT !.pc = "done",
                            !.last_exception = Remember(retry.last_exception, e),
                            !.result = <<"raised", Remember(retry.last_exception, e)>>]
    /\ UNCHANGED <<ctxVars, batch>>

\* time.sleep(current_delay) / await asyncio.sleep(current_delay) is over.
wrapper_sleep ==
    /\ retry.pc = "sleep"
    /\ retry' = [retry EXCEPT !.pc = "call",
                              !.slept = Append(retry.slept, retry.current_delay),
                              !.current_delay = retry.current_delay * retry.backoff,
                              !.attempt = retry.attempt + 1]
    /\ UNCHANGED <<ctxVars, batch>>

\* The task awaiting asyncio.sleep is cancelled.
wrapper_cancelled ==
    /\ retry.pc = "sleep"
    /\ retry.async
    /\ retry' = [retry EXCEPT !.pc = "done",
                              !.result = <<"raised", <<"CancelledError", 0>> >>]
    /\ UNCHANGED <<ctxVars, batch>>

\* The caller has the outcome; the wrapper can be called again.
wrapper_done ==
    /\ retry.pc = "done"
    /\ retry' = [retry EXCEPT !.pc = "idle"]
    /\ UNCHANGED <<ctxVars, batch>>

\* --------------------------------------------------- batch processing
Min(a, b) == IF a < b THEN a ELSE b

\* chunk_list: data[i : i + chunk_size] for i in range(0, len(data), chunk_size).
RECURSIVE chunk_list(_, _)
chunk_list(data, chunk_size) ==
    IF data = <<>> THEN <<>>
    ELSE <<SubSeq(data, 1, Min(chunk_size, Len(data)))>>
         \o chunk_list(SubSeq(data, Min(chunk_size, Len(data)) + 1, Len(data)), chunk_size)

\* The items 1..n in order.
Items(n) == [i \in 1..n |-> i]

\* The chunks whose process_func call is in progress.
InProgress == {i \in 1..Len(batch.st) : batch.st[i] = "running"}

\* A semaphore that hands out a permit without counting it.
Acquire_uncounted(value) == value

\* Semaphore.acquire with a permit free: one permit fewer.
Acquire(value) == value - 1

\* sorted(completed, key=index) of gather's list, then the results alone: the
\* result of chunk i stands at place i (a result is written as its chunk).
SortedResults(chunks) == [i \in 1..Len(chunks) |-> chunks[i]]

\* The call up to `await asyncio.gather(*tasks)`: a negative max_concurrency
\* makes Semaphore raise, a batch_size of 0 or less makes chunk_list raise;
\* otherwise one task per chunk waits for the semaphore.
async_batch_process_concurrent(n, batch_size, max_concurrency) ==
    /\ batch.pc = "idle"
    /\ batch' =
         IF max_concurrency < 0 \/ batch_size <= 0
         THEN [batch EXCEPT !.pc = "raised", !.max_concurrency = max_concurrency,
                            !.result = "ValueError"]
         ELSE LET chunks == chunk_list(Items(n), batch_size)
              IN  [batch EXCEPT !.pc = "gather", !.max_concurrency = max_concurrency,
                                !.chunks = chunks, !.semaphore = max_concurrency,
                                !.st = [i \in 1..Len(chunks) |-> "waiting"],
                                !.calls = [i \in 1..Len(chunks) |-> 0]]
    /\ UNCHANGED <<ctxVars, retry>>

\* process_with_semaphore(chunk i): the semaphore is entered and process_func
\* is called.
process_acquire(i) ==
    /\ i \in 1..Len(batch.st)
    /\ batch.st[i] = "waiting"
    /\ batch.semaphore > 0
    /\ batch' = [batch EXCEPT !.semaphore = Acquire(batch.semaphore),
                              !.st[i] = "running", !.calls[i] = @ + 1]
    /\ UNCHANGED <<ctxVars, retry>>

\* process_func(chunk i) returns or raises; the semaphore is left.
process_finish(i, ok) ==
    /\ i \in 1..Len(batch.st)
    /\ batch.st[i] = "running"
    /\ batch' = [batch EXCEPT !.semaphore = @ + 1,
                              !.st[i] = IF ok THEN "done" ELSE "failed"]
    /\ UNCHANGED <<ctxVars, retry>>

\* gather has every task's result: the list is sorted and returned.
gather_return ==
    /\ batch.pc = "gather"
    /\ \A i \in 1..Len(batch.st) : batch.st[i] = "done"
    /\ batch' = [batch EXCEPT !.pc = "returned", !.result = SortedResults(batch.chunks)]
    /\ UNCHANGED <<ctxVars, retry>>

\* gather passes on the exception of a task that failed; the other tasks go on.
gather_raise ==
    /\ batch.pc = "gather"
    /\ \E i \in 1..Len(batch.st) : batch.st[i] = "failed"
    /\ batch' = [batch EXCEPT !.pc = "raised", !.result = "Exception"]
    /\ UNCHANGED <<ctxVars, retry>>

\* ------------------------------------------------------ specifications
\* The registry of one ContextManager, used by the cooperative tasks of one thread.
NextManager ==
    \/ \E p, ch \in ScopeBranches : spawn_task(p, ch)
    \/ \E b \in ScopeBranches, c \in CtxIds : Ctx_set(b, c, "k1", 2)
    \/ \E b \in ScopeBranches, n \in Names : create_context(b, n)
    \/ \E b \in ScopeBranches : create_store(b)
    \/ \E b \in ScopeBranches, n \in Names : ContextManager_get_context(b, n)
    \/ \E b \in ScopeBranches, n \in Names : get_or_create_context(b, n)
    \/ \E b \in ScopeBranches : goc_store(b)
    \/ \E b \in ScopeBranches : goc_load(b)
    \/ \E b \in ScopeBranches, n \in Names : delete_context(b, n)
    \/ \E b \in ScopeBranches : del_del(b)
    \/ \E b \in ScopeBranches : clear_all(b)
    \/ \E b \in ScopeBranches : list_contexts(b)

SpecManager == Init /\ [][NextManager]_vars

\* The process-wide manager and the scope helpers, used by cooperative tasks.
Next ==
    \/ \E p, ch \in ScopeBranches : spawn_task(p, ch)
    \/ \E b \in ScopeBranches, n \in Names : get_context(b, n)
    \/ \E b \in ScopeBranches : mg_assign(b)
    \/ \E b \in ScopeBranches : mg_load(b)
    \/ \E b \in ScopeBranches : goc_store(b)
    \/ \E b \in ScopeBranches : goc_load(b)
    \/ \E b \in ScopeBranches, fn \in ScopeFns, n \in Names, init \in {<<>>, << <<"k1", 1>> >>} :
          scope_enter(b, fn, n, init)
    \/ \E b \in ScopeBranches, how \in Exits : scope_exit(b, how)
    \/ \E b \in ScopeBranches : del_del(b)

Spec == Init /\ [][Next]_vars

\* One ContextManager, used by preemptive threads.
NextThreads ==
    \/ \E p, ch \in Branches : start_thread(p, ch)
    \/ \E b \in Branches, n \in Names : create_context(b, n)
    \/ \E b \in Branches : create_store(b)
    \/ \E b \in Branches, n \in Names : get_or_create_context(b, n)
    \/ \E b \in Branches : goc_store(b)
    \/ \E b \in Branches : goc_load(b)
    \/ \E b \in Branches, n \in Names : delete_context(b, n)
    \/ \E b \in Branches : del_del(b)
    \/ \E b \in Branches : list_contexts(b)

SpecThreads == Init /\ [][NextThreads]_vars

\* The process-wide manager and the scope helpers, used by preemptive threads.
NextScopeThreads ==
    \/ \E p, ch \in ScopeBranches : start_thread(p, ch)
    \/ \E b \in ScopeBranches, n \in Names : get_context(b, n)
    \/ \E b \in ScopeBranches : mg_assign(b)
    \/ \E b \in ScopeBranches : mg_load(b)
    \/ \E b \in ScopeBranches : goc_store(b)
    \/ \E b \in ScopeBranches : goc_load(b)
    \/ \E b \in ScopeBranches, n \in Names : scope_enter(b, "context_scope", n, <<>>)
    \/ \E b \in ScopeBranches, how \in {"normal", "exception"} : scope_exit(b, how)
    \/ \E b \in ScopeBranches : del_del(b)

SpecScopeThreads == Init /\ [][NextScopeThreads]_vars

\* The Context methods on a registered Context, used by cooperative tasks.
NextContext ==
    \/ \E p, ch \in Branches : spawn_task(p, ch)
    \/ \E b \in Branches : get_or_create_context(b, "req")
    \/ \E b \in Branches : goc_store(b)
    \/ \E b \in Branches : goc_load(b)
    \/ \E b \in Branches, c \in CtxIds, k \in Keys, v \in {1, 2} : Ctx_set(b, c, k, v)
    \/ \E b \in Branches, c \in CtxIds : Ctx_read(b, c)
    \/ \E b \in Branches, c \in CtxIds, k \in Keys : Ctx_delete(b, c, k)
    \/ \E b \in Branches, c \in CtxIds : Ctx_clear(b, c)
    \/ \E b \in Branches, c \in CtxIds, other \in Mappings : Ctx_update(b, c, other)

SpecContext == Init /\ [][NextContext]_vars

\* set and get on a registered Context and on the global Context, used by
\* cooperative tasks.
NextIsolation ==
    \/ \E p, ch \in Branches : spawn_task(p, ch)
    \/ \E b \in Branches : get_or_create_context(b, "req")
    \/ \E b \in Branches : goc_store(b)
    \/ \E b \in Branches : goc_load(b)
    \/ \E b \in Branches, c \in CtxIds \ {gctx}, v \in {1, 2} : Ctx_set(b, c, "k1", v)
    \/ \E b \in Branches, c \in CtxIds \ {gctx} : Ctx_read(b, c)
    \/ \E b \in Branches, v \in {1, 2} : set_global(b, "k1", v)
    \/ \E b \in Branches : get_global(b, "k1")
    \/ \E b \in Branches : gg_assign(b)
    \/ \E b \in Branches : gg_load(b)

SpecIsolation == Init /\ [][NextIsolation]_vars

\* The reading and writing methods of a Context with their results, used by
\* a task and the task it spawns.
NextApi ==
    \/ \E p, ch \in ScopeBranches : spawn_task(p, ch)
    \/ \E b \in ScopeBranches : get_or_create_context(b, "req")
    \/ \E b \in ScopeBranches : goc_store(b)
    \/ \E b \in ScopeBranches : goc_load(b)
    \/ \E b \in ScopeBranches, c \in CtxIds \ {gctx}, k \in Keys, v \in Values : Ctx_set(b, c, k, v)
    \/ \E b \in ScopeBranches, c \in CtxIds \ {gctx}, k \in Keys, v \in Values : Ctx_setitem(b, c, k, v)
    \/ \E b \in ScopeBranches, c \in CtxIds \ {gctx}, k \in Keys, d \in Defaults : Ctx_get(b, c, k, d)
    \/ \E b \in ScopeBranches, c \in CtxIds \ {gctx}, k \in Keys : Ctx_getitem(b, c, k)
    \/ \E b \in ScopeBranches, c \in CtxIds \ {gctx}, k \in Keys : Ctx_delete(b, c, k)
    \/ \E b \in ScopeBranches, c \in CtxIds \ {gctx}, k \in Keys : Ctx_delitem(b, c, k)
    \/ \E b \in ScopeBranches, c \in CtxIds \ {gctx} : Ctx_clear(b, c)
    \/ \E b \in ScopeBranches, c \in CtxIds \ {gctx}, other \in Mappings : Ctx_update(b, c, other)

SpecApi == Init /\ [][NextApi]_vars

\* Writing and reading through a Context and through the global convenience
\* functions, by a task and the task it spawns.
NextRoundTrip ==
    \/ \E p, ch \in ScopeBranches : spawn_task(p, ch)
    \/ \E b \in ScopeBranches : get_or_create_context(b, "req")
    \/ \E b \in ScopeBranches : goc_store(b)
    \/ \E b \in ScopeBranches : goc_load(b)
    \/ \E b \in ScopeBranches, c \in CtxIds \ {gctx}, k \in Keys, v \in {1, 2} : Ctx_set(b, c, k, v)
    \/ \E b \in ScopeBranches, c \in CtxIds \ {gctx}, v \in {None, 1} : Ctx_setitem(b, c, "k1", v)
    \/ \E b \in ScopeBranches, c \in CtxIds \ {gctx} : Ctx_read(b, c)
    \/ \E b \in ScopeBranches, c \in CtxIds \ {gctx}, k \in Keys : Ctx_delete(b, c, k)
    \/ \E b \in ScopeBranches, c \in CtxIds \ {gctx} : Ctx_clear(b, c)
    \/ \E b \in ScopeBranches, c \in CtxIds \ {gctx}, other \in Mappings : Ctx_update(b, c, other)
    \/ \E b \in ScopeBranches, v \in {1, 2} : set_global(b, "k1", v)
    \/ \E b \in ScopeBranches : get_global(b, "k1")
    \/ \E b \in ScopeBranches : clear_global(b)
    \/ \E b \in ScopeBranches : gg_assign(b)
    \/ \E b \in ScopeBranches : gg_load(b)

SpecRoundTrip == Init /\ [][NextRoundTrip]_vars

\* The snapshot methods of a Context and what the caller does with the
\* collection it gets.
NextSnapshot ==
    \/ \E p, ch \in ScopeBranches : spawn_task(p, ch)
    \/ \E b \in ScopeBranches : get_or_create_context(b, "req")
    \/ \E b \in ScopeBranches : goc_store(b)
    \/ \E b \in ScopeBranches : goc_load(b)
    \/ \E b \in ScopeBranches, c \in CtxIds, k \in Keys, v \in {1, 2} : Ctx_set(b, c, k, v)
    \/ \E b \in ScopeBranches, c \in CtxIds, k \in Keys : Ctx_delete(b, c, k)
    \/ \E b \in ScopeBranches, c \in CtxIds : Ctx_clear(b, c)
    \/ \E b \in ScopeBranches, c \in CtxIds, other \in Mappings : Ctx_update(b, c, other)
    \/ \E b \in ScopeBranches, c \in CtxIds, m \in Snapshots : Ctx_snapshot(b, c, m)
    \/ \E b \in ScopeBranches, k \in Keys, v \in {1, 2} : Mutate_returned(b, k, v)

SpecSnapshot == Init /\ [][NextSnapshot]_vars

\* Entering scopes and get_context only, by preemptive threads: no registration
\* is ever removed.
NextEnterThreads ==
    \/ \E p, ch \in ScopeBranches : start_thread(p, ch)
    \/ \E b \in ScopeBranches, n \in Names : get_context(b, n)
    \/ \E b \in ScopeBranches : mg_assign(b)
    \/ \E b \in ScopeBranches : mg_load(b)
    \/ \E b \in ScopeBranches : goc_store(b)
    \/ \E b \in ScopeBranches : goc_load(b)
    \/ \E b \in ScopeBranches, n \in Names : scope_enter(b, "context_scope", n, <<>>)

SpecEnterThreads == Init /\ [][NextEnterThreads]_vars

\* The retry decorators.
NextRetry ==
    \/ \E a \in BOOLEAN, n \in -1..MaxRetries, d \in {1}, f \in {1, 2},
          x \in ExceptionTuples : retry_decorator(a, n, d, f, x)
    \/ wrapper
    \/ \E out \in Outcomes : wrapper_call(out)
    \/ wrapper_sleep
    \/ wrapper_cancelled
    \/ wrapper_done

SpecRetry == Init /\ [][NextRetry]_vars


\* async_batch_process_concurrent; the event loop runs every task that can go
\* on and process_func comes to an end.
NextBatch ==
    \/ \E n \in 0..MaxItems, size \in 0..2, m \in -1..2 :
          async_batch_process_concurrent(n, size, m)
    \/ \E i \in 1..MaxItems : process_acquire(i)
    \/ \E i \in 1..MaxItems, ok \in BOOLEAN : process_finish(i, ok)
    \/ gather_return
    \/ gather_raise

SpecBatch == Init /\ [][NextBatch]_vars /\ WF_vars(NextBatch)

\* run_in_context: a task, the functions it runs with run_in_context, and the
\* Context methods they call.
NextRun ==
    \/ \E b \in Branches : get_or_create_context(b, "req")
    \/ \E b \in Branches : goc_store(b)
    \/ \E b \in Branches : goc_load(b)
    \/ \E b \in Branches, c \in CtxIds, k \in Keys, v \in {1, 2} : Ctx_set(b, c, k, v)
    \/ \E b \in Branches, c \in CtxIds : Ctx_read(b, c)
    \/ \E b \in Branches, c \in CtxIds, k \in Keys : Ctx_delete(b, c, k)
    \/ \E b \in Branches, c \in CtxIds : Ctx_clear(b, c)
    \/ \E b \in Branches, c \in CtxIds, other \in Mappings : Ctx_update(b, c, other)
    \/ \E p, ch \in Branches, c \in CtxIds : run_in_context(p, c, ch)
    \/ \E ch \in Branches, v \in {1, 2} : func_return(ch, v)
    \/ \E p \in Branches : run_return(p)

SpecRun == Init /\ [][NextRun]_vars

\* The global convenience functions next to Contexts registered under the
\* name "global", in the process-wide manager and in a manager of the user.
NextGlobal ==
    \/ \E b \in ScopeBranches : get_context(b, "global")
    \/ \E b \in ScopeBranches : mg_assign(b)
    \/ \E b \in ScopeBranches : mg_load(b)
    \/ \E b \in ScopeBranches : get_or_create_context(b, "global")
    \/ \E b \in ScopeBranches : goc_store(b)
    \/ \E b \in ScopeBranches : goc_load(b)
    \/ \E b \in ScopeBranches, fn \in ScopeFns, init \in {<<>>, << <<"k1", 1>> >>} :
          scope_enter(b, fn, "global", init)
    \/ \E b \in ScopeBranches : scope_exit(b, "normal")
    \/ \E b \in ScopeBranches : delete_context(b, "global")
    \/ \E b \in ScopeBranches : del_del(b)
    \/ \E b \in ScopeBranches : clear_all(b)
    \/ \E b \in ScopeBranches, c \in CtxIds \ {gctx} : Ctx_set(b, c, "k1", 1)
    \/ \E b \in ScopeBranches : set_global(b, "k1", 2)
    \/ \E b \in ScopeBranches : get_global(b, "k1")
    \/ \E b \in ScopeBranches : clear_global(b)
    \/ \E b \in ScopeBranches : gg_assign(b)
    \/ \E b \in ScopeBranches : gg_load(b)
    \/ \E p, ch \in ScopeBranches : spawn_task(p, ch)

SpecGlobal == Init /\ [][NextGlobal]_vars

\* -------------------------------------------------------------- claims
Alive(b) == kind[b] # "none"

\* The registry lookup of name n in the process-wide manager.
Lookup(n) == IF gmgr = None THEN None ELSE DictGet(contexts[gmgr], n, None)

\* The step that ends branch b's with-statement.
ExitCompletes(b) ==
    /\ scope[b].st \in {"inblock", "exiting"}
    /\ scope'[b].st = "none"
    /\ last'.b = b /\ last'.op = "scope_exit"

\* C1: isolation of concurrent writers.  A set(k, v) (or set_global) by one
\* branch makes that branch's get(k) return v and leaves the get(k) of every
\* other branch on that Context what it was; so whatever A and B set, in any
\* interleaving, each keeps reading its own value.
C1_Isolation ==
    [][\A b \in Branches, c \in CtxIds, k \in Keys :
          (last'.op \in {"set", "set_global"} /\ last'.c = c /\ last'.name = k) =>
              /\ last'.b = b => \A v \in Values :
                                   last'.val = v => Context_get(b, c, k, None)' = v
              /\ (Alive(b) /\ last'.b # b) =>
                     \A v \in Values \cup {None} :
                        Context_get(b, c, k, None) = v => Context_get(b, c, k, None)' = v
      ]_vars

\* Two sibling tasks wrote 1 and 2 under the same key of the same Context,
\* which their parent never wrote, and each reads its own value.
C1_Witness ==
    \E a, b \in Branches \ {1} : \E c \in CtxIds :
        /\ a # b /\ c # gctx
        /\ last.b = b /\ last.op = "set" /\ last.c = c /\ last.val = 2
        /\ Context_get(b, c, "k1", None) = 2
        /\ Context_get(a, c, "k1", None) = 1
        /\ ~Context_has(1, c, "k1")

\* C2: set, update, delete and clear by one branch never change the view
\* (get, has, keys, len) that any other existing branch has of a Context.
C2_NoCrossBranchEffect ==
    [][\A b \in Branches, c \in CtxIds :
          (Alive(b) /\ last'.b # b /\ last'.op \in {"set", "update", "delete", "clear"}) =>
              /\ \A k \in Keys, v \in Values \cup {None} :
                    Context_get(b, c, k, None) = v => Context_get(b, c, k, None)' = v
              /\ \A k \in Keys : Context_has(b, c, k) <=> Context_has(b, c, k)'
              /\ \A ks \in {Context_keys(b, c)} : Context_keys(b, c)' = ks
              /\ \A n \in {Context_len(b, c)} : Context_len(b, c)' = n
      ]_vars

\* A child deleted a key that its parent, which set it before the fork, still has.
C2_Witness ==
    \E a, b \in Branches : \E c \in CtxIds :
        /\ a < b /\ Alive(b)
        /\ last.b = b /\ last.op = "delete" /\ last.c = c
        /\ Context_has(a, c, "k1") /\ ~Context_has(b, c, "k1")

\* C3: a branch spawned as a copy of the spawner's execution context starts
\* with the spawner's view of every Context, so it reads every value the
\* spawner had set before, and it keeps reading it whatever the other
\* branches do afterwards.
C3_SpawnInherits ==
    [][\A ch \in Branches, c \in CtxIds, k \in Keys :
          /\ (last'.op = "spawn" /\ last'.val = ch /\ ~Alive(ch)) =>
                \A v \in Values \cup {None} :
                    Context_get(last'.b, c, k, None) = v => Context_get(ch, c, k, None)' = v
          /\ (Alive(ch) /\ last'.b # ch) =>
                \A v \in Values \cup {None} :
                    Context_get(ch, c, k, None) = v => Context_get(ch, c, k, None)' = v
      ]_vars

\* A task was just spawned and reads the value its spawner had set.
C3_Witness ==
    \E c \in CtxIds :
        /\ last.op = "spawn"
        /\ Context_get(last.b, c, "k1", None) = 2
        /\ Context_get(last.val, c, "k1", None) = 2

\* C4: when a with-statement of a scope helper ends, however the block was
\* left, a lookup of the name in the process-wide manager finds no Context.
C4_ScopeExitUnregisters ==
    [][\A b \in Branches, n \in Names :
          (ExitCompletes(b) /\ scope[b].name = n) => Lookup(n)' = None
      ]_vars

\* A block was left by an exception, the scope removed the registration and
\* the name is no longer registered.
C4_Witness ==
    /\ last.op = "scope_exit" /\ last.exc = "Exception" /\ last.val = 1
    /\ Lookup(last.name) = None

\* C5: create_context on a registered name raises ValueError and changes
\* neither the registry (the name keeps its Context object) nor any data.
C5_DuplicateCreateFails ==
    [][\A b \in Branches, n \in Names :
          ( /\ call[b].pc = "idle"
            /\ last'.b = b /\ last'.name = n
            /\ last'.op \in {"create_context", "create_store"}
            /\ DictHas(contexts[UserManager], n) ) =>
              /\ last'.op = "create_context" /\ last'.exc = "ValueError"
              /\ call'[b].pc = "idle"
              /\ contexts' = contexts /\ ctxName' = ctxName
              /\ \A c \in CtxIds : c = DictGet(contexts[UserManager], n, None) =>
                                      DictGet(contexts[UserManager], n, None)' = c
              /\ heap' = heap /\ cvar' = cvar
      ]_vars

\* A create_context has just raised ValueError for a name whose Context holds data.
C5_Witness ==
    /\ last.op = "create_context" /\ last.exc = "ValueError"
    /\ \E b \in Branches :
          Context_len(b, DictGet(contexts[UserManager], last.name, None)) > 0

\* C6: get_or_create_context on a registered name constructs and registers
\* nothing, raises nothing and returns the Context object registered under
\* the name, the same on every call while the name stays registered.
C6_GetOrCreateIdempotent ==
    [][\A b \in Branches, n \in Names, c \in CtxIds :
          /\ ( /\ call[b].pc = "idle"
               /\ call'[b].op = "get_or_create_context" /\ call'[b].name = n
               /\ DictGet(contexts[UserManager], n, None) = c ) =>
                 /\ call'[b].pc = "goc_load"
                 /\ contexts' = contexts /\ ctxName' = ctxName
          /\ ( /\ call[b].op = "get_or_create_context" /\ call[b].name = n
               /\ call[b].pc = "goc_load" /\ call'[b].pc = "idle"
               /\ DictGet(contexts[call[b].m], n, None) = c ) =>
                 /\ last'.op = "get_or_create_context" /\ last'.exc = "" /\ last'.val = c
                 /\ contexts' = contexts /\ ctxName' = ctxName
      ]_vars

\* get_or_create_context has just returned, to another branch than the one
\* that created it, a Context that already holds data.
C6_Witness ==
    /\ last.op = "get_or_create_context" /\ last.exc = "" /\ last.b = 2
    /\ last.val \in CtxIds
    /\ Context_len(1, last.val) > 0

\* C7: mutual exclusion of the registry operations.  A create_context that
\* registers and returns a Context finds the name unregistered at the moment it
\* registers, so that of two concurrent calls for one name only one returns.
C7_CreateExclusive ==
    [][\A b \in Branches :
          (call[b].pc = "create_store" /\ call'[b].pc = "idle") =>
              ~DictHas(contexts[call[b].m], call[b].name)
      ]_vars

\* C8: the threads that have obtained the Context of one name from get_context
\* (here: ctx = get_context(name) of a scope helper; no registration is ever
\* removed) hold the identical object, the one registered under the name.
C8_SameObject ==
    \A a, b \in Branches :
        (scope[a].st = "inblock" /\ scope[b].st = "inblock" /\ scope[a].name = scope[b].name) =>
            /\ scope[a].ctx = scope[b].ctx
            /\ Lookup(scope[a].name) = scope[a].ctx

\* C9: while a branch is inside the block of a scope helper, the name is
\* registered in the process-wide manager and maps to the yielded Context.
C9_RegisteredInsideBlock ==
    \A b \in Branches :
        scope[b].st = "inblock" => Lookup(scope[b].name) = scope[b].ctx

\* C10 as stated: the with-statement ends with the name unregistered and the
\* scope's release has removed the registration (exactly once).
C10_RemovesExactlyOnce ==
    [][\A b \in Branches, n \in Names :
          (ExitCompletes(b) /\ scope[b].name = n) =>
              /\ Lookup(n)' = None
              /\ last'.val = 1
      ]_vars

\* C10 as amended: on every exit path, cancellation and exceptions included,
\* the release runs before the with-statement ends and leaves the name
\* unregistered; it removes a registration exactly when the name is still
\* registered at that moment, and the exception of the block leaves the
\* with-statement.
C10_ReleaseOnEveryExit ==
    [][\A b \in Branches, n \in Names :
          (ExitCompletes(b) /\ scope[b].name = n) =>
              /\ Lookup(n)' = None
              /\ last'.val = (IF Lookup(n) # None THEN 1 ELSE 0)
              /\ scope[b].st = "exiting" => last'.exc = ExitExc(scope[b].how)
      ]_vars

\* A cancelled block has been left and its release removed the registration.
C10_Witness ==
    /\ last.op = "scope_exit" /\ last.exc = "CancelledError" /\ last.val = 1
    /\ Lookup(last.name) = None

\* A step in which branch b itself sets, updates, deletes or clears key k of
\* Context c.
Touches(b, c, k) ==
    /\ last'.b = b /\ last'.c = c
    /\ \/ last'.op \in {"set", "setitem", "set_global", "delete", "delitem"} /\ last'.name = k
       \/ last'.op \in {"clear", "clear_global"}
       \/ last'.op = "update" /\ DictHas(MappingList[last'.arg], k)

\* C11: round trip.  A set(k, v), ctx[k] = v or set_global(k, v) by a branch
\* makes that branch's get(k) return v, and get(k) goes on returning what it
\* returned through every step in which that branch does not itself set,
\* update, delete or clear k.
C11_RoundTrip ==
    [][\A b \in Branches, c \in CtxIds, k \in Keys :
          /\ ( /\ last'.b = b /\ last'.c = c /\ last'.name = k
               /\ last'.op \in {"set", "setitem", "set_global"} ) =>
                 \A v \in Values :
                    last'.val = v => /\ Context_get(b, c, k, None)' = v
                                     /\ Context_has(b, c, k)'
          /\ (Alive(b) /\ ~Touches(b, c, k)) =>
                 /\ \A v \in Values \cup {None} :
                       Context_get(b, c, k, None) = v => Context_get(b, c, k, None)' = v
                 /\ Context_has(b, c, k) <=> Context_has(b, c, k)'
      ]_vars

\* get_global has just returned the value that the branch stored with set_global.
C11_Witness ==
    /\ last.op = "get_global" /\ last.name = "k1" /\ last.val = 2
    /\ last.c = gctx /\ Context_get(last.b, gctx, "k1", None) = 2

\* C12: delete(k) returns True exactly when k is in the caller's view, leaves
\* k absent (has False, get the default) and, when it returns False, the
\* view as it was; an absent key stays absent until the branch sets or
\* updates it, so a second delete returns False.
C12_Delete ==
    [][\A b \in Branches, c \in CtxIds, k \in Keys :
          /\ (last'.b = b /\ last'.c = c /\ last'.name = k /\ last'.op = "delete") =>
                /\ last'.val = 1 <=> Context_has(b, c, k)
                /\ last'.val \in {0, 1} /\ last'.exc = ""
                /\ ~Context_has(b, c, k)'
                /\ \A d \in Defaults : Context_get(b, c, k, d)' = d
                /\ last'.val = 0 => \A x \in {get_data(b, c)} : get_data(b, c)' = x
          /\ ( /\ Alive(b) /\ ~Context_has(b, c, k)
               /\ ~(Touches(b, c, k) /\ last'.op \in {"set", "setitem", "update"}) ) =>
                ~Context_has(b, c, k)'
      ]_vars

\* A second delete of a key that the first delete removed has returned False.
C12_Witness ==
    \E b \in Branches, c \in CtxIds :
        /\ last.b = b /\ last.c = c /\ last.op = "delete" /\ last.val = 0
        /\ cvar[b][c] >= 2
        /\ DictHas(heap[cvar[b][c] - 1], last.name)
        /\ ~Context_has(b, c, last.name)

\* C13: get never raises and returns the value, or the default for an absent
\* key; ctx[k] and del ctx[k] raise KeyError exactly when k is absent.
C13_BracketVsGet ==
    [][\A b \in Branches, c \in CtxIds, k \in Keys :
          (last'.b = b /\ last'.c = c /\ last'.name = k) =>
              /\ last'.op = "get" =>
                    /\ last'.exc = ""
                    /\ last'.val = (IF Context_has(b, c, k)
                                    THEN DictGet(get_data(b, c), k, None) ELSE last'.arg)
              /\ last'.op = "getitem" =>
                    /\ last'.exc = (IF Context_has(b, c, k) THEN "" ELSE "KeyError")
                    /\ Context_has(b, c, k) => last'.val = DictGet(get_data(b, c), k, None)
              /\ last'.op = "delitem" =>
                    last'.exc = (IF Context_has(b, c, k) THEN "" ELSE "KeyError")
      ]_vars

\* del ctx[k] has just raised KeyError for a key that get() answers with the default.
C13_Witness ==
    /\ last.op = "delitem" /\ last.exc = "KeyError"
    /\ last.c \in CtxIds
    /\ Context_get(last.b, last.c, last.name, 2) = 2

\* C16: after update(mapping) every key of the mapping has the mapping's
\* value, and every other key is present or absent, with the value, as before.
C16_Update ==
    [][\A b \in Branches, c \in CtxIds, i \in 1..Len(MappingList), k \in Keys :
          (last'.b = b /\ last'.c = c /\ last'.op = "update" /\ last'.arg = i) =>
              IF DictHas(MappingList[i], k)
              THEN /\ Context_has(b, c, k)'
                   /\ Context_get(b, c, k, None)' = DictGet(MappingList[i], k, None)
              ELSE /\ Context_has(b, c, k) <=> Context_has(b, c, k)'
                   /\ \A v \in Values \cup {None} :
                         Context_get(b, c, k, None) = v => Context_get(b, c, k, None)' = v
      ]_vars

\* update({"k1": 1}) has just run on a view that held k2, and k2 is still there.
C16_Witness ==
    \E b \in Branches, c \in CtxIds :
        /\ last.b = b /\ last.c = c /\ last.op = "update" /\ last.arg = 2
        /\ Context_get(b, c, "k1", None) = 1
        /\ Context_get(b, c, "k2", None) = 2
        /\ Context_len(b, c) = 2

\* C18: after clear() or clear_global() the caller's view is empty (len 0,
\* has False, get the default), and an empty view stays empty until the
\* branch itself sets or updates.
C18_Clear ==
    [][\A b \in Branches, c \in CtxIds :
          /\ (last'.b = b /\ last'.c = c /\ last'.op \in {"clear", "clear_global"}) =>
                /\ Context_len(b, c)' = 0
                /\ \A k \in Keys : /\ ~Context_has(b, c, k)'
                                   /\ \A d \in Defaults : Context_get(b, c, k, d)' = d
          /\ ( /\ Alive(b) /\ Context_len(b, c) = 0
               /\ ~(last'.b = b /\ last'.c = c
                    /\ last'.op \in {"set", "setitem", "set_global", "update"}) ) =>
                Context_len(b, c)' = 0
      ]_vars

\* clear_global has emptied the view of a branch while the other branch still
\* reads a value from the global Context.
C18_Witness ==
    \E a \in Branches :
        /\ last.op = "clear_global" /\ last.c = gctx /\ a # last.b
        /\ Context_len(last.b, gctx) = 0
        /\ Context_len(a, gctx) > 0

\* C17: keys(), values(), items() and to_dict() return a new collection holding
\* the caller's view at that moment, an object that no ContextVar holds;
\* changing a returned collection changes nothing that any snapshot method of
\* any Context returns, and set / update / delete / clear change no object
\* that exists, so no collection returned earlier.
C17_SnapshotsAreCopies ==
    [][/\ \A b \in Branches, c \in CtxIds, m \in Snapshots :
             (last'.b = b /\ last'.c = c /\ last'.op = m) =>
                 /\ last'.val \in 1..Len(heap')
                 /\ \A x \in {Context_snapshot(b, c, m)} : heap'[last'.val] = x
                 /\ \A o \in Branches, e \in CtxIds : cvar'[o][e] # last'.val
       /\ last'.op = "mutate" =>
             \A b \in Branches, c \in CtxIds, m \in Snapshots :
                 \A x \in {Context_snapshot(b, c, m)} : Context_snapshot(b, c, m)' = x
       /\ last'.op \in {"set", "update", "delete", "clear"} =>
             \A d \in 1..Len(heap) : heap'[d] = heap[d]
      ]_vars

\* The caller stored a key in the dict that to_dict() returned, and the
\* Context's view, which is not empty, does not have it.
C17_Witness ==
    /\ last.op = "mutate" /\ last.name = "to_dict"
    /\ Context_len(last.b, last.c) > 0
    /\ heap[last.val] # get_data(last.b, last.c)

\* C14: delete_context(name) on a registered name removes it and returns True:
\* get_context(name) is None afterwards and the other registrations are as
\* before; on an unregistered name it returns False, raises nothing and
\* leaves the registry as it was.
C14_DeleteContext ==
    [][\A b \in Branches, n \in Names :
          /\ ( /\ call[b].pc = "idle" /\ last'.b = b /\ last'.name = n
               /\ last'.op \in {"delete_context", "del_del"} ) =>
                 /\ contexts' = contexts
                 /\ IF DictHas(contexts[UserManager], n)
                    THEN last'.op = "del_del"
                    ELSE last'.op = "delete_context" /\ last'.val = 0 /\ last'.exc = ""
          /\ ( /\ call[b].pc = "del_del" /\ call[b].op = "delete_context"
               /\ call[b].name = n /\ last'.b = b ) =>
                 /\ DictHas(contexts[UserManager], n)
                 /\ last'.op = "delete_context" /\ last'.val = 1 /\ last'.exc = ""
                 /\ DictGet(contexts'[UserManager], n, None) = None
                 /\ \A o \in Names \ {n} :
                       DictGet(contexts'[UserManager], o, None)
                           = DictGet(contexts[UserManager], o, None)
      ]_vars

\* delete_context has returned True and the other name is still registered.
C14_Witness ==
    /\ last.op = "delete_context" /\ last.val = 1
    /\ ~DictHas(contexts[UserManager], last.name)
    /\ Len(contexts[UserManager]) = 1

\* The names in a sequence, without n.
Without(L, n) == SelectSeq(L, LAMBDA x : x # n)

\* C15: list_contexts() is the sequence of registered names in registration
\* order, each once: a successful create_context / get_or_create_context of an
\* unregistered name appends the name, delete_context removes it and keeps the
\* order of the others, clear_all empties the list, and every other step
\* (get_context, list_contexts, a failed create_context, get_or_create_context
\* of a registered name) leaves it as it is; only create_context raises.
C15_ListContexts ==
    [][\A L \in {ContextManager_list_contexts(UserManager)} :
          /\ \A i, j \in 1..Len(ContextManager_list_contexts(UserManager)') :
                i # j => ContextManager_list_contexts(UserManager)'[i]
                             # ContextManager_list_contexts(UserManager)'[j]
          /\ \A b \in Branches, n \in Names :
                (last'.b = b /\ call[b].name = n) =>
                    /\ call[b].pc \in {"create_store", "goc_store"} =>
                          /\ \A i \in 1..Len(L) : L[i] # n
                          /\ ContextManager_list_contexts(UserManager)' = Append(L, n)
                    /\ call[b].pc = "del_del" =>
                          ContextManager_list_contexts(UserManager)' = Without(L, n)
          /\ last'.op = "clear_all" => ContextManager_list_contexts(UserManager)' = <<>>
          /\ ( /\ last'.op # "clear_all"
               /\ \A b \in Branches :
                     last'.b = b => call[b].pc \notin {"create_store", "goc_store", "del_del"} ) =>
                ContextManager_list_contexts(UserManager)' = L
          /\ last'.op = "list_contexts" => last'.val = Len(L) /\ last'.exc = ""
          /\ last'.op = "get_context" =>
                /\ last'.exc = ""
                /\ \A n \in Names : last'.name = n =>
                      last'.val = DictGet(contexts[UserManager], n, None)
          /\ last'.exc # "" => last'.op = "create_context" /\ last'.exc = "ValueError"
      ]_vars

\* list_contexts has just reported two names, the one registered first ahead
\* of the one registered second.
C15_Witness ==
    /\ last.op = "list_contexts" /\ last.val = 2
    /\ ContextManager_list_contexts(UserManager) = <<"req", "global">>
    /\ ctxName = <<"req", "global">>

\* C19: when a scope helper yields, the Context it yields is the one
\* registered under the name in the process-wide manager, and the caller's
\* get(k) returns initial[k] for every key of the initial mapping.
C19_ScopeYields ==
    [][\A b \in Branches, n \in Names, c \in CtxIds :
          ( /\ scope[b].st = "entering" /\ scope'[b].st = "inblock"
            /\ scope[b].name = n /\ scope'[b].ctx = c ) =>
              /\ Lookup(n)' = c
              /\ last'.b = b /\ last'.op \in ScopeFns /\ last'.val = c /\ last'.exc = ""
              /\ \A i \in 1..Len(MappingList), k \in Keys :
                    (scope[b].init = MappingList[i] /\ DictHas(MappingList[i], k)) =>
                        Context_get(b, c, k, None)' = DictGet(MappingList[i], k, None)
      ]_vars

\* A scope entered with {"k1": 1} has just yielded the registered Context, and
\* get("k1") is 1.
C19_Witness ==
    \E b \in Branches :
        /\ scope[b].st = "inblock" /\ last.b = b /\ last.op = "async_context_scope"
        /\ Lookup(scope[b].name) = scope[b].ctx
        /\ Context_get(b, scope[b].ctx, "k1", None) = 1

\* C20: the with-statement of a scope helper ends with the exception with
\* which the block was left (and with none if it was left without one), after
\* the cleanup: the name is unregistered when the exception leaves.
C20_ExceptionPropagates ==
    [][\A b \in Branches :
          ExitCompletes(b) =>
              /\ last'.exc \in {"", "Exception", "CancelledError"}
              /\ scope[b].st = "exiting" =>
                    /\ scope[b].how = "exception" => last'.exc = "Exception"
                    /\ scope[b].how = "cancelled" => last'.exc = "CancelledError"
                    /\ scope[b].how \in {"normal", "return"} => last'.exc = ""
              /\ \A n \in Names : scope[b].name = n => Lookup(n)' = None
      ]_vars

\* The exception of a block that was entered with initial data has left the
\* with-statement.
C20_Witness ==
    /\ last.op = "scope_exit" /\ last.exc = "Exception"
    /\ last.c \in CtxIds
    /\ Context_get(last.b, last.c, "k1", None) = 1
    /\ Lookup(last.name) = None

\* The wrapper has been called and its call has ended (the outcome is kept
\* until the next call).
Ended == retry.pc \in {"done", "idle"} /\ retry.result # <<>>

\* The class t is listed in `exceptions`, itself or through a base class.
Listed(t) == \E c \in retry.exceptions : c \in Mro(t)

\* C22: with max_retries = n >= 0 the wrapper calls the function at most n + 1
\* times; a call that returns is the last one and its value is the wrapper's
\* result; when all n + 1 calls raise listed exceptions the wrapper raises the
\* exception of the last call.
C22_AtMostNPlusOne ==
    (retry.pc # "undecorated" /\ retry.max_retries >= 0) =>
        LET n == retry.max_retries
            calls == Len(retry.outs)
        IN  /\ calls <= n + 1
            /\ \A i \in 1..calls :
                  retry.outs[i][1] = "ok" =>
                      /\ i = calls
                      /\ Ended
                      /\ retry.result = <<"returned", i>>
            /\ ( /\ calls = n + 1
                 /\ \A i \in 1..calls :
                       retry.outs[i][1] = "raise" /\ Listed(retry.outs[i][2]) ) =>
                    /\ Ended
                    /\ retry.result = <<"raised", <<retry.outs[n + 1][2], n + 1>> >>

\* Three calls with max_retries = 2 all raised listed exceptions, the first
\* and the last of different classes, and the last one's came out.
C22_Witness ==
    /\ retry.pc = "done"
    /\ retry.max_retries = 2
    /\ Len(retry.outs) = 3
    /\ retry.outs[1] = <<"raise", "ValueError">>
    /\ retry.outs[3] = <<"raise", "TypeError">>
    /\ retry.result = <<"raised", <<"TypeError", 3>> >>

\* C23: a call that raises an exception of a class not listed in `exceptions`
\* is the last call, its exception is what the wrapper raises, and no delay
\* follows it: the wrapper slept only between the calls before.
C23_OnlyListedRetried ==
    retry.pc # "undecorated" =>
        \A i \in 1..Len(retry.outs) :
            (retry.outs[i][1] = "raise" /\ ~Listed(retry.outs[i][2])) =>
                /\ i = Len(retry.outs)
                /\ Ended
                /\ retry.result = <<"raised", <<retry.outs[i][2], i>> >>
                /\ Len(retry.slept) = i - 1

\* With only ValueError listed and retries left, a second call raised
\* TypeError and the wrapper raised it at once.
C23_Witness ==
    /\ retry.pc = "done"
    /\ retry.max_retries = 2
    /\ retry.exceptions = {"ValueError"}
    /\ retry.outs = << <<"raise", "UnicodeError">>, <<"raise", "TypeError">> >>
    /\ retry.result = <<"raised", <<"TypeError", 2>> >>
    /\ Len(retry.slept) = 1

\* Concatenation of the chunks.
RECURSIVE Flatten(_)
Flatten(chunks) == IF chunks = <<>> THEN <<>> ELSE Head(chunks) \o Flatten(Tail(chunks))

\* At no time are more than max_concurrency process_func calls in progress, no
\* chunk is processed twice, and a call that has returned has processed every
\* chunk once and lists the results in the order of the chunks.
BatchInv ==
    batch.pc # "idle" =>
        /\ batch.max_concurrency >= 0 => Cardinality(InProgress) <= batch.max_concurrency
        /\ \A i \in 1..Len(batch.calls) : batch.calls[i] <= 1
        /\ batch.pc = "returned" =>
              /\ \A i \in 1..Len(batch.calls) : batch.calls[i] = 1 /\ batch.st[i] = "done"
              /\ Flatten(batch.result) = Flatten(batch.chunks)
              /\ \E n \in 0..MaxItems : Flatten(batch.chunks) = Items(n)

View(b, c) == IF cvar[b][c] = None THEN <<>> ELSE heap[cvar[b][c]]

\* C21: run_in_context(ctx, func) returns what func returns, and what func
\* reads and writes goes to ctx's view in the calling branch: when the call
\* returns, the caller sees in ctx what func left there.
C21_RunsAgainstCtx ==
    [][\A p \in Branches : \A ch \in {call[p].val} :
          (call[p].pc = "run_in_context" /\ last'.op = "run_in_context" /\ last'.b = p) =>
              /\ last'.val = call[ch].val
              /\ \A ctx \in {call[p].m} : View(p, ctx)' = View(ch, ctx)]_vars

C25_CopyOnWrite ==
    [][/\ Len(heap') >= Len(heap)
       /\ \A d \in 1..Len(heap) : heap'[d] = heap[d]
       /\ \A b \in Branches : \A c \in CtxIds :
             /\ (Alive(b) /\ cvar'[b][c] # cvar[b][c]) =>
                    /\ cvar'[b][c] = Len(heap) + 1
                    /\ Len(heap') = Len(heap) + 1
                    /\ last'.b = b /\ last'.c = c
             /\ (last'.op = "clear" /\ last'.b = b /\ last'.c = c) =>
                    cvar'[b][c] = Len(heap) + 1 /\ heap'[Len(heap) + 1] = <<>>
             /\ (last'.op = "read" /\ cvar[b][c] # None) => cvar'[b][c] = cvar[b][c]
             /\ (last'.op = "spawn" /\ last'.val = b) =>
                    \A p \in {last'.b} : cvar'[b][c] = cvar[p][c]]_vars

\* A task still holds the empty dict it inherited (installed lazily by a read
\* of its spawner) after the spawner has gone on to a snapshot with a key in it.
C25_Witness ==
    \E p, ch \in Branches : \E c \in 1..Len(ctxName) :
        /\ p # ch /\ Alive(p) /\ Alive(ch)
        /\ cvar[ch][c] = 1 /\ heap[1] = <<>>
        /\ cvar[p][c] \notin {None, 1}
        /\ Context_has(p, c, "k1")
        /\ last.op \in {"set", "update"} /\ last.b = p

\* Branch b's current snapshot of Context c holds key k with the value None.
StoredNone(b, c, k) ==
    /\ cvar[b][c] # None
    /\ \E i \in 1..Len(heap[cvar[b][c]]) : heap[cvar[b][c]][i] = <<k, None>>

\* Branch b's current snapshot of Context c has no entry for key k.
Absent(b, c, k) ==
    cvar[b][c] = None \/ \A i \in 1..Len(heap[cvar[b][c]]) : heap[cvar[b][c]][i][1] # k

\* C26: a key stored with the value None counts as present.  Storing None
\* makes the key an entry of the view; while it is one, has is true, get
\* returns None whatever default is passed, ctx[k] returns None and does not
\* raise, delete returns True and del ctx[k] does not raise; ctx[k] raises
\* KeyError only when the view has no entry for the key.
C26_NoneIsPresent ==
    [][\A b \in Branches, c \in CtxIds, k \in Keys :
          /\ ( /\ last'.op \in {"set", "setitem"} /\ last'.val = None
               /\ last'.b = b /\ last'.c = c /\ last'.name = k ) => StoredNone(b, c, k)'
          /\ StoredNone(b, c, k) =>
                /\ Context_has(b, c, k)
                /\ (last'.b = b /\ last'.c = c /\ last'.name = k) =>
                      /\ last'.op = "get" => last'.val = None /\ last'.exc = ""
                      /\ last'.op = "getitem" => last'.val = None /\ last'.exc = ""
                      /\ last'.op = "delete" => last'.val = 1
                      /\ last'.op = "delitem" => last'.exc = ""
          /\ ( /\ last'.op = "getitem" /\ last'.exc = "KeyError"
               /\ last'.b = b /\ last'.c = c /\ last'.name = k ) => Absent(b, c, k)
      ]_vars

\* get(k, 2) has just returned None, not 2, for a key stored with None.
C26_Witness ==
    /\ last.op = "get" /\ last.arg = 2 /\ last.val = None
    /\ last.c \in 1..Len(ctxName)
    /\ last.name \in Keys
    /\ StoredNone(last.b, last.c, last.name)

\* Context c is registered, under some name, in some manager.
Registered(c) ==
    \E m \in 1..Len(contexts) : \E i \in 1..Len(contexts[m]) : contexts[m][i][2] = c

\* C27: the Context behind set_global / get_global / clear_global is never
\* registered in a manager and is not the Context registered under "global":
\* set_global leaves every other Context as it was, so get_context("global")
\* does not return what it wrote, and no step other than a branch's own
\* set_global or clear_global (context_scope("global") and its exit,
\* delete_context("global"), clear_all, writes to the registered Context)
\* changes what get_global returns in that branch.
C27_GlobalIsSeparate ==
    [][/\ \A g \in {gctx'} : g # None => ~Registered(g)'
       /\ \A b \in Branches :
             /\ \A c \in CtxIds :
                   (last'.op = "set_global" /\ last'.b = b /\ c # last'.c) =>
                       \A w \in {View(b, c)} : View(b, c)' = w
             /\ \A g \in {gctx} :
                   ( /\ g # None /\ Alive(b)
                     /\ ~(last'.b = b /\ last'.op \in {"set_global", "clear_global"}) ) =>
                       \A w \in {View(b, g)} : View(b, g)' = w
      ]_vars

\* A context_scope("global") has just ended and removed its registration; the
\* branch still reads 2 with get_global and the Context the scope yielded,
\* filled with k1 = 1 on entry, never held that 2.
C27_Witness ==
    /\ last.op = "scope_exit" /\ last.name = "global" /\ last.val = 1
    /\ gctx # None
    /\ last.c # gctx
    /\ Context_get(last.b, gctx, "k1", None) = 2
    /\ Context_get(last.b, last.c, "k1", None) = 1
    /\ Lookup("global") = None

\* The Context registered under name n in manager m (None if there is none).
RegisteredAs(m, n) == DictGet(contexts[m], n, None)

\* C29: removing a registration erases no data, and a name registered anew
\* gets a new Context.  A step that takes a name out of a registry leaves
\* every branch's view of every Context object as it was, so a reference
\* obtained earlier still returns its values; a step that registers a Context
\* under a name registers an object that did not exist before, whose view is
\* empty in every branch, and leaves the views of the earlier objects alone.
C29_DataOutlivesRegistration ==
    [][\A m \in 1..Len(contexts) : \A n \in Names :
          \A old \in {RegisteredAs(m, n)} :
              /\ (old # None /\ RegisteredAs(m, n)' = None) =>
                     /\ cvar' = cvar /\ heap' = heap /\ ctxName' = ctxName
                     /\ \A b \in Branches : \A w \in {View(b, old)} : View(b, old)' = w
              /\ (RegisteredAs(m, n)' \notin {None, old}) =>
                     /\ old = None
                     /\ RegisteredAs(m, n)' = Len(ctxName) + 1
                     /\ Len(ctxName') = Len(ctxName) + 1
                     /\ ctxName'[Len(ctxName) + 1] = n
                     /\ \A b \in Branches : cvar'[b][Len(ctxName) + 1] = None
                     /\ \A c \in 1..Len(ctxName) : \A b \in Branches :
                           \A w \in {View(b, c)} : View(b, c)' = w
      ]_vars

\* "req" has been registered, written to, removed and registered again: the
\* first Context still returns the value in the branch that stored it, and
\* the second one, just returned, is another object with nothing in it.
C29_Witness ==
    /\ ctxName = <<"req", "req">>
    /\ RegisteredAs(UserManager, "req") = 2
    /\ last.op \in {"get_or_create_context", "create_context"} /\ last.val = 2
    /\ Context_get(1, 1, "k1", None) = 2
    /\ \A b \in Branches : cvar[b][2] = None

\* The step that ends branch b's entry into a scope: the block starts.
EntryCompletes(b) == scope[b].st = "entering" /\ scope'[b].st = "inblock"

\* C30: a scope's exit unregisters whatever Context is registered under its
\* name at that moment.  A scope entered while the name is registered (by an
\* overlapping scope or by an earlier get_context) receives that very Context;
\* an exit that finds the name registered removes the registration, whichever
\* Context it is and whoever registered it, registers nothing in its place and
\* leaves the other blocks running with the name unregistered; an exit that
\* finds the name unregistered changes nothing.
C30_ExitUnregistersWhatever ==
    [][\A b \in Branches, n \in Names : \A reg \in {Lookup(n)} :
          /\ (EntryCompletes(b) /\ scope[b].name = n /\ reg # None) =>
                 scope'[b].ctx = reg
          /\ (ExitCompletes(b) /\ scope[b].name = n) =>
                 /\ Lookup(n)' = None
                 /\ reg # None => last'.val = 1
                 /\ reg = None => last'.val = 0 /\ contexts' = contexts
                 /\ ctxName' = ctxName
                 /\ \A o \in Branches \ {b} : scope'[o] = scope[o]
      ]_vars

\* Of two overlapping scopes of one name, which share one Context, the first
\* has just ended and removed the registration while the other block runs on.
C30_Witness ==
    \E a \in Branches :
        /\ scope[a].st = "inblock"
        /\ last.op = "scope_exit" /\ last.b # a /\ last.val = 1
        /\ last.name = scope[a].name
        /\ last.c = scope[a].ctx
        /\ Lookup(scope[a].name) = None

====
